---- MODULE Spec2Model ----
(***************************************************************************)
(* Model of the DirectIP server: the connection handler of sbd/server.go   *)
(* and the distributer of mux/distributor.go.                              *)
(*                                                                         *)
(* Goroutines of the model: one per accepted connection (NewService), the  *)
(* listener tasks started by New (run), one dispatch unit per received     *)
(* message (handle), one configuration caller (main / watchServices) and   *)
(* the owner calling Close.  Unbuffered channels are rendezvous steps.     *)
(* The field f.targets is a slice header (pointer, length) that run writes *)
(* and handle / Targets read without synchronisation: the write is two     *)
(* word stores, so a reader may see one word of each table.                *)
(***************************************************************************)
EXTENDS Integers, Sequences, FiniteSets, TLC

\* ------------------------------------------------------------ bounds
NumConns == 2          \* accepted connections
NumWorkers == 2        \* listener tasks (numworkers of New)
MaxCfgCalls == 1       \* WithTargets calls made while serving
MaxTargets == 2        \* longest candidate list passed to WithTargets
MaxNilUnits == 1       \* dispatch units spawned from the closed sbdChannel

Conns == 1..NumConns
Workers == 1..NumWorkers

\* ------------------------------------------------------------ values
Nil == "nil"
None == "none"

\* Device identifiers (Header.GetIMEI), as digit sequences.
IMEIs == {<<3, 0>>, <<9, 9>>}

\* Pattern sources and what regexp.Compile makes of them.
PatPrefix300 == "^3"
PatAny == ""
PatBroken == "("

\* The nil *regexp.Regexp.
NilRegexp == [ok |-> FALSE, prefix |-> <<>>]

Compile(p) ==
  CASE p = PatPrefix300 -> [ok |-> TRUE, prefix |-> <<3>>]
    [] p = PatAny -> [ok |-> TRUE, prefix |-> <<>>]
    [] OTHER -> NilRegexp

MatchString(re, imei) ==
  /\ Len(re.prefix) <= Len(imei)
  /\ SubSeq(imei, 1, Len(re.prefix)) = re.prefix

\* Backend URLs; http.NewRequest rejects the malformed one.
BadURL == ":"
Backends == {"a", "b", BadURL}
NewRequestOK(backend) == backend # BadURL

\* A Target as configured (IMEIPattern, Backend); imeipattern is set by WithTargets.
Target(p, b) == [IMEIPattern |-> p, Backend |-> b, imeipattern |-> NilRegexp]
TargetA == Target(PatPrefix300, "a")
TargetB == Target(PatAny, "b")
TargetU == Target(PatAny, BadURL)
TargetX == Target(PatBroken, "b")

\* Candidates the configuration caller passes to WithTargets, and the entries of
\* the configuration file main loads before it serves.
Candidates == {TargetA, TargetB, TargetX}
FileTargets == {TargetA, TargetB, TargetU}

\* Memory beyond a backing array, read through a torn slice header.
Garbage == Target("garbage", "garbage")

RECURSIVE SeqsUpTo(_, _)
SeqsUpTo(S, n) ==
  IF n = 0 THEN {<<>>}
  ELSE LET shorter == SeqsUpTo(S, n - 1)
       IN shorter \cup {Append(s, x) : s \in {t \in shorter : Len(t) = n - 1}, x \in S}

CandidateLists == SeqsUpTo(Candidates, MaxTargets)
FileLists == SeqsUpTo(FileTargets, MaxTargets)

\* HTTP outcomes of t.client.Do: a 2xx answer, another status, a transport error.
Outcomes == {"2xx", "non2xx", "transport"}

ErrMarshal == "json: marshal error"
ErrNewRequest == "http: cannot create request"
ErrTransport == "http: transport error"

\* ------------------------------------------------------------ state
VARIABLES
  targets,      \* f.targets: slice header [ptr, len]
  arr,          \* backing arrays built by WithTargets, by call number (0: at startup)
  cfgClosed,    \* configChannel closed
  sbdClosed,    \* sbdChannel closed
  closePc,      \* position of Close: "idle", "closing", "done"
  closeQuiet,   \* Close was called while no Handle / WithTargets was in progress
  wpc,          \* listener task position: "select", "w1", "w2", "done"
  wcfg,         \* cfg received by the listener task (call number)
  cpc,          \* configuration caller: "idle", "send"
  ncalls,       \* WithTargets calls started
  okCalls,      \* calls that returned nil
  lastRet,      \* last call of WithTargets: [call, err, cands (of a refused call)]
  pc,           \* connection position
  msg,          \* decoded message of the connection: [imei, marshals]
  hstart,       \* what the configuration was when Handle was called, and at the receive
  upc,          \* dispatch unit position: "none", "spawned", "loop", "http", "done"
  snap,         \* slice header the unit's range loop captured
  idx,          \* loop index of the unit
  reqs,         \* requests issued by the unit: sequence of [idx, tgt]
  out,          \* outcome of the unit's last request
  sends,        \* values sent on msg.returnedError
  rerr,         \* value Handle got from msg.returnedError
  chClosed,     \* msg.returnedError closed
  res,          \* confirmation status built by the connection
  written,      \* status bytes written to the device
  nilUnits,     \* handle(nil) units spawned and not yet run
  panicked      \* [kind, who] of the panic that ended the process, kind "none" if alive

vars == <<targets, arr, cfgClosed, sbdClosed, closePc, closeQuiet, wpc, wcfg, cpc,
          ncalls, okCalls, lastRet, pc, msg, hstart, upc, snap, idx, reqs,
          out, sends, rerr, chClosed, res, written, nilUnits, panicked>>

cfgVars == <<arr, cpc, ncalls, okCalls, lastRet>>
closeVars == <<cfgClosed, sbdClosed, closePc, closeQuiet>>
workerVars == <<wpc, wcfg>>
connVars == <<pc, msg, hstart, res, written>>
unitVars == <<upc, snap, idx, reqs, out>>
resultVars == <<sends, rerr, chClosed>>

NilHeader == [ptr |-> 0, len |-> 0]
NoPanic == [kind |-> None, who |-> 0]
NoMsg == [imei |-> <<>>, marshals |-> TRUE]
\* table: pointer of the settled table when Handle was called, 0 if none;
\* picked: f.targets when a listener task received the message.
NoStart == [afterClose |-> FALSE, table |-> 0, picked |-> NilHeader]
Alive == panicked.kind = None

\* The slice header of the table built by call k (var ar Targets; append ...): the
\* nil slice when there was no candidate, else a pointer to the array of call k.
Header(k) == IF arr[k] = <<>> THEN NilHeader ELSE [ptr |-> k + 1, len |-> Len(arr[k])]

\* The elements a reader ranges over, given the header it loaded.
Resolve(h) ==
  LET base == IF h.ptr = 0 THEN <<>> ELSE arr[h.ptr - 1]
  IN [i \in 1..h.len |-> IF i <= Len(base) THEN base[i] ELSE Garbage]

Init ==
  /\ targets = NilHeader
  /\ arr = [k \in 0..MaxCfgCalls |-> <<>>]
  /\ cfgClosed = FALSE
  /\ sbdClosed = FALSE
  /\ closePc = "idle"
  /\ closeQuiet = FALSE
  /\ wpc = [w \in Workers |-> "select"]
  /\ wcfg = [w \in Workers |-> 0]
  /\ cpc = "idle"
  /\ ncalls = 0
  /\ okCalls = {}
  /\ lastRet = [call |-> 0, err |-> Nil, cands |-> <<>>]
  /\ pc = [c \in Conns |-> "reading"]
  /\ msg = [c \in Conns |-> NoMsg]
  /\ hstart = [c \in Conns |-> NoStart]
  /\ upc = [c \in Conns |-> "none"]
  /\ snap = [c \in Conns |-> NilHeader]
  /\ idx = [c \in Conns |-> 0]
  /\ reqs = [c \in Conns |-> <<>>]
  /\ out = [c \in Conns |-> None]
  /\ sends = [c \in Conns |-> 0]
  /\ rerr = [c \in Conns |-> None]
  /\ chClosed = [c \in Conns |-> FALSE]
  /\ res = [c \in Conns |-> 0]
  /\ written = [c \in Conns |-> <<>>]
  /\ nilUnits = 0
  /\ panicked = NoPanic


\* ------------------------------------------------------------ WithTargets / Targets
\* Index of the first candidate whose pattern regexp.Compile rejects, 0 if none.
FirstBroken(cands) ==
  LET bad == {i \in 1..Len(cands) : ~Compile(cands[i].IMEIPattern).ok}
  IN IF bad = {} THEN 0 ELSE CHOOSE i \in bad : \A j \in bad : i <= j

\* The error WithTargets returns for the candidates: it names the pattern.
CompileError(cands) ==
  IF FirstBroken(cands) = 0 THEN Nil ELSE cands[FirstBroken(cands)].IMEIPattern

\* Whether the loop of WithTargets runs to the send on configChannel.
\* (faulty variant: the loop goes on past a pattern that does not compile)
ReachesSendAlways(cands) == TRUE
ReachesSend(cands) == FirstBroken(cands) = 0

\* The slice ar at the send: every candidate, with its compiled pattern.
Built(cands) ==
  [i \in 1..Len(cands) |-> [cands[i] EXCEPT !.imeipattern = Compile(cands[i].IMEIPattern)]]

\* WithTargets up to its return with an error or to its send.
WithTargets(cands) ==
  /\ Alive
  /\ cpc = "idle"
  /\ ncalls < MaxCfgCalls
  /\ ncalls' = ncalls + 1
  /\ lastRet' = [call |-> ncalls + 1, err |-> CompileError(cands),
                 cands |-> IF CompileError(cands) = Nil THEN <<>> ELSE cands]
  /\ IF ReachesSend(cands)
       THEN /\ arr' = [arr EXCEPT ![ncalls + 1] = Built(cands)]
            /\ cpc' = "send"
       ELSE /\ arr' = arr
            /\ cpc' = "idle"
  /\ UNCHANGED <<targets, okCalls, closeVars, workerVars, connVars, unitVars,
                 resultVars, nilUnits, panicked>>

\* Whether listener task w is at its select: go f.handle(msg) starts the dispatch
\* unit and the listener goes round its loop without waiting for it.
\* (faulty variant: the listener runs handle itself and is busy until it is over)
ListenerRunsHandle(w) == wpc[w] = "select" /\ \A c \in Conns : upc[c] \in {"none", "done"}
AtSelect(w) == wpc[w] = "select"

\* f.configChannel <- ar, received by listener task w; WithTargets returns nil.
WithTargetsSend(w) ==
  /\ Alive
  /\ cpc = "send"
  /\ ~cfgClosed
  /\ AtSelect(w)
  /\ wpc' = [wpc EXCEPT ![w] = "w1"]
  /\ wcfg' = [wcfg EXCEPT ![w] = ncalls]
  /\ cpc' = "idle"
  /\ okCalls' = okCalls \cup {ncalls}
  /\ UNCHANGED <<targets, arr, ncalls, lastRet, closeVars, connVars, unitVars,
                 resultVars, nilUnits, panicked>>

\* f.configChannel <- ar on the closed channel panics.
WithTargetsSendPanic ==
  /\ Alive
  /\ cpc = "send"
  /\ cfgClosed
  /\ panicked' = [kind |-> "send on closed configChannel", who |-> 0]
  /\ UNCHANGED <<targets, cfgVars, closeVars, workerVars, connVars, unitVars,
                 resultVars, nilUnits>>

\* Targets() returns the field as it is: the elements its caller ranges over.
Targets == Resolve(targets)

\* ------------------------------------------------------------ Close
InProgress == cpc # "idle" \/ \E c \in Conns : pc[c] \in {"send", "await", "gotres"}

CloseConfig ==
  /\ Alive
  /\ closePc = "idle"
  /\ cfgClosed' = TRUE
  /\ closePc' = "closing"
  /\ closeQuiet' = ~InProgress
  /\ UNCHANGED <<targets, sbdClosed, cfgVars, workerVars, connVars, unitVars,
                 resultVars, nilUnits, panicked>>

CloseSbd ==
  /\ Alive
  /\ closePc = "closing"
  /\ sbdClosed' = TRUE
  /\ closePc' = "done"
  /\ UNCHANGED <<targets, cfgClosed, closeQuiet, cfgVars, workerVars, connVars,
                 unitVars, resultVars, nilUnits, panicked>>

\* ------------------------------------------------------------ run
\* f.targets = cfg: the first word stored (pointer or length).
RunSetFirst(w) ==
  /\ Alive
  /\ wpc[w] = "w1"
  /\ \E word \in {"ptr", "len"} :
       targets' = [targets EXCEPT ![word] = Header(wcfg[w])[word]]
  /\ wpc' = [wpc EXCEPT ![w] = "w2"]
  /\ UNCHANGED <<wcfg, cfgVars, closeVars, connVars, unitVars, resultVars, nilUnits,
                 panicked>>

\* f.targets = cfg: the remaining word stored; back to the select.
RunSetRest(w) ==
  /\ Alive
  /\ wpc[w] = "w2"
  /\ targets' = Header(wcfg[w])
  /\ wpc' = [wpc EXCEPT ![w] = "select"]
  /\ wcfg' = [wcfg EXCEPT ![w] = 0]
  /\ UNCHANGED <<cfgVars, closeVars, connVars, unitVars, resultVars, nilUnits,
                 panicked>>

\* case cfg, more := <-f.configChannel with the channel closed: return.
RunConfigClosed(w) ==
  /\ Alive
  /\ wpc[w] = "select"
  /\ cfgClosed
  /\ wpc' = [wpc EXCEPT ![w] = "done"]
  /\ UNCHANGED <<targets, wcfg, cfgVars, closeVars, connVars, unitVars, resultVars,
                 nilUnits, panicked>>

\* case msg := <-f.sbdChannel with the channel closed: msg is nil, go f.handle(nil).
RunSbdClosed(w) ==
  /\ Alive
  /\ wpc[w] = "select"
  /\ sbdClosed
  /\ nilUnits < MaxNilUnits
  /\ nilUnits' = nilUnits + 1
  /\ UNCHANGED <<targets, cfgVars, closeVars, workerVars, connVars, unitVars,
                 resultVars, panicked>>

\* handle(nil): m.data dereferences the nil message.
HandleNil ==
  /\ Alive
  /\ nilUnits > 0
  /\ panicked' = [kind |-> "nil pointer dereference", who |-> 0]
  /\ UNCHANGED <<targets, cfgVars, closeVars, workerVars, connVars, unitVars,
                 resultVars, nilUnits>>

\* ------------------------------------------------------------ connection handler
\* A decoded message: its device identifier, and whether json.Marshal accepts it.
Messages == {[imei |-> i, marshals |-> TRUE] : i \in IMEIs}
              \cup {[imei |-> <<>>, marshals |-> FALSE]}

\* The status byte of the confirmation: createResult(0), res.Status = 1 on a nil error.
\* (faulty variant: the status is set to 1 whatever happened)
ConfirmationAlwaysOK(decoded, err) == 1

ConfirmationStatus(decoded, err) ==
  IF ~decoded THEN 0
  ELSE IF err # Nil THEN 0 ELSE 1

\* GetElements fails: the negative confirmation is built, the handler is not called.
DecodeFails(c) ==
  /\ Alive
  /\ pc[c] = "reading"
  /\ res' = [res EXCEPT ![c] = ConfirmationStatus(FALSE, Nil)]
  /\ pc' = [pc EXCEPT ![c] = "replying"]
  /\ UNCHANGED <<targets, cfgVars, closeVars, workerVars, msg, hstart, written,
                 unitVars, resultVars, nilUnits, panicked>>

\* GetElements succeeds; h.Handle(el) is called: distribute builds msg and its channel.
Decodes(c, m) ==
  /\ Alive
  /\ pc[c] = "reading"
  /\ msg' = [msg EXCEPT ![c] = m]
  /\ hstart' = [hstart EXCEPT ![c] = [afterClose |-> closePc = "done",
                                       table |-> IF ncalls \in okCalls THEN ncalls + 1 ELSE 0,
                                       picked |-> NilHeader]]
  /\ pc' = [pc EXCEPT ![c] = "send"]
  /\ UNCHANGED <<targets, cfgVars, closeVars, workerVars, res, written, unitVars,
                 resultVars, nilUnits, panicked>>

\* Whether f.sbdChannel <- msg can be received: not once Close has closed it.
\* (faulty variant: a send on the closed channel is still received)
SendAcceptedAlways == TRUE
SendAccepted == ~sbdClosed

\* f.sbdChannel <- msg received by listener task w, which runs go f.handle(msg).
DistributeSend(c, w) ==
  /\ Alive
  /\ pc[c] = "send"
  /\ SendAccepted
  /\ AtSelect(w)
  /\ pc' = [pc EXCEPT ![c] = "await"]
  /\ upc' = [upc EXCEPT ![c] = "spawned"]
  /\ hstart' = [hstart EXCEPT ![c].picked = targets]
  /\ UNCHANGED <<targets, cfgVars, closeVars, workerVars, msg, res, written,
                 snap, idx, reqs, out, resultVars, nilUnits, panicked>>

\* f.sbdChannel <- msg on the closed channel panics.
DistributeSendPanic(c) ==
  /\ Alive
  /\ pc[c] = "send"
  /\ ~SendAccepted
  /\ panicked' = [kind |-> "send on closed sbdChannel", who |-> c]
  /\ UNCHANGED <<targets, cfgVars, closeVars, workerVars, connVars, unitVars,
                 resultVars, nilUnits>>

\* rerr := <-msg.returnedError has its value: close the channel, return to the
\* connection handler, which sets the status.  The message and the locals of its
\* finished dispatch unit are dead from here on.
DistributeReturn(c) ==
  /\ Alive
  /\ pc[c] = "gotres"
  /\ chClosed' = [chClosed EXCEPT ![c] = TRUE]
  /\ res' = [res EXCEPT ![c] = ConfirmationStatus(TRUE, rerr[c])]
  /\ pc' = [pc EXCEPT ![c] = "replying"]
  /\ msg' = [msg EXCEPT ![c] = NoMsg]
  /\ hstart' = [hstart EXCEPT ![c] = NoStart]
  /\ snap' = [snap EXCEPT ![c] = NilHeader]
  /\ idx' = [idx EXCEPT ![c] = 0]
  /\ reqs' = [reqs EXCEPT ![c] = <<>>]
  /\ out' = [out EXCEPT ![c] = None]
  /\ UNCHANGED <<targets, cfgVars, closeVars, workerVars, written, upc, sends, rerr,
                 nilUnits, panicked>>

\* Where the connection is after the write: the goroutine returns and the deferred
\* c.Close() runs, whether the write failed or not.
\* (faulty variant: the connection stays open for another write)
AfterWriteStays == "replying"
AfterWrite == "closed"

\* binary.Write(c, binary.BigEndian, res), then the deferred c.Close().
WriteConfirmation(c) ==
  /\ Alive
  /\ pc[c] = "replying"
  /\ written' = [written EXCEPT ![c] = Append(@, res[c])]
  /\ pc' = [pc EXCEPT ![c] = AfterWrite]
  /\ UNCHANGED <<targets, cfgVars, closeVars, workerVars, msg, hstart, res,
                 unitVars, resultVars, nilUnits, panicked>>

\* ------------------------------------------------------------ handle
\* Where a dispatch unit is after its send: every send of handle is followed by a
\* return (the last one by the end of the function).
\* (faulty variant: the unit runs handle again after its send)
AfterSendAgain == "spawned"
AfterSend == "done"

\* The Handle call that receives what the dispatch unit of c sends: the channel
\* m.returnedError was made by the distribute call of that message and is read by
\* it alone.
\* (faulty variant: one channel shared by the Handle calls that wait)
ReceiverShared(c) ==
  IF \E d \in Conns : pc[d] = "await" THEN CHOOSE d \in Conns : pc[d] = "await" ELSE c
Receiver(c) == c

\* m.returnedError <- e: received by the distribute call waiting for it; it blocks
\* while nobody receives, and panics once the channel is closed.
Deliver(c, e) ==
  LET r == Receiver(c)
  IN IF chClosed[r]
       THEN /\ panicked' = [kind |-> "send on closed returnedError", who |-> c]
            /\ UNCHANGED <<pc, upc, rerr, sends>>
       ELSE /\ pc[r] = "await"
            /\ rerr' = [rerr EXCEPT ![r] = e]
            /\ sends' = [sends EXCEPT ![r] = @ + 1]
            /\ pc' = [pc EXCEPT ![r] = "gotres"]
            /\ upc' = [upc EXCEPT ![c] = AfterSend]
            /\ UNCHANGED panicked

\* The value sent after a response whose status is not 2xx: the variable err of
\* rsp, err := t.client.Do(rq), which is nil once the call has succeeded.
StatusError == Nil

\* The value handle sends when the loop does not go on after the outbound call: the
\* transport error of client.Do, or err after a response that is not 2xx.
\* (faulty variant: the transport error is dropped)
ResultDropsError(o) == Nil
Result(o) == IF o = "transport" THEN ErrTransport ELSE StatusError

\* Whether the loop goes on after the outbound call: no transport error
\* (err == nil) and rsp.StatusCode/100 == 2; otherwise handle sends and returns.
\* (faulty variant: the loop goes on after a failed call)
ContinuesAlways(o) == TRUE
Continues(o) == o = "2xx"

\* Whether the loop body is entered for t.
\* (faulty variant: the pattern is not consulted)
MatchesAll(t, imei) == TRUE
Matches(t, imei) == MatchString(t.imeipattern, imei)

\* The first index from i on at which the loop does more than skip a target.
\* (faulty variant NextStopSkipsOne: the search starts one entry too far)
RECURSIVE NextStopFrom(_, _, _)
NextStopFrom(s, imei, i) ==
  IF i > Len(s) THEN i
  ELSE IF s[i] = Garbage \/ Matches(s[i], imei) THEN i
  ELSE NextStopFrom(s, imei, i + 1)

NextStopSkipsOne(s, imei, i) == NextStopFrom(s, imei, i + 1)

RECURSIVE NextStop(_, _, _)
NextStop(s, imei, i) ==
  IF i > Len(s) THEN i
  ELSE IF s[i] = Garbage \/ Matches(s[i], imei) THEN i
  ELSE NextStop(s, imei, i + 1)

\* The loop body for target t at index j: http.NewRequest, then t.client.Do is called.
Attempt(c, j, t) ==
  IF ~NewRequestOK(t.Backend)
    THEN /\ Deliver(c, ErrNewRequest)
         /\ UNCHANGED <<idx, reqs>>
    ELSE /\ reqs' = [reqs EXCEPT ![c] = Append(@, [idx |-> j, tgt |-> t])]
         /\ idx' = [idx EXCEPT ![c] = j]
         /\ upc' = [upc EXCEPT ![c] = "http"]
         /\ UNCHANGED <<pc, sends, rerr, panicked>>

\* The range loop over the captured header h, from index i on: it skips the targets
\* that do not match, attempts the first that does, and sends nil at the end.  An
\* element beyond the backing array stops it before the undefined read.
Loop(c, h, i) ==
  LET s == Resolve(h)
      j == NextStop(s, msg[c].imei, i)
  IN IF j > Len(s)
       THEN /\ Deliver(c, Nil)
            /\ UNCHANGED <<idx, reqs>>
       ELSE IF s[j] = Garbage
         THEN /\ idx' = [idx EXCEPT ![c] = j]
              /\ upc' = [upc EXCEPT ![c] = "beyond"]
              /\ UNCHANGED <<pc, reqs, sends, rerr, panicked>>
         ELSE Attempt(c, j, s[j])

\* handle starts: json.Marshal, then the range expression f.targets is evaluated and
\* the loop runs to its first outbound call.  What f.targets was at the receive is
\* of no account from here on.
HandleStart(c) ==
  /\ Alive
  /\ upc[c] = "spawned"
  /\ hstart' = [hstart EXCEPT ![c].picked = NilHeader]
  /\ IF ~msg[c].marshals
       THEN /\ Deliver(c, ErrMarshal)
            /\ UNCHANGED <<snap, idx, reqs>>
       ELSE /\ snap' = [snap EXCEPT ![c] = targets]
            /\ Loop(c, targets, 1)
  /\ UNCHANGED <<targets, cfgVars, closeVars, workerVars, msg, res, written,
                 out, chClosed, nilUnits>>

\* The slice the range loop of handle goes over after an outbound call: the header
\* it evaluated once, when the loop started.
\* (faulty variant: the loop looks at f.targets again in every round)
RangedCurrent(c) == targets
Ranged(c) == snap[c]

\* What may lie beyond a backing array: a Target some WithTargets built.
GarbageTargets == UNION {{arr[k][i] : i \in 1..Len(arr[k])} : k \in 0..MaxCfgCalls}

\* The loop reads an element beyond the backing array: the read is undefined.  It
\* faults (at once, or in MatchString on a nil pattern), or it yields a Target.
HandleGarbage(c) ==
  /\ Alive
  /\ upc[c] = "beyond"
  /\ \/ /\ panicked' = [kind |-> "invalid memory", who |-> c]
        /\ UNCHANGED <<pc, upc, idx, reqs, sends, rerr>>
     \/ \E g \in GarbageTargets :
          IF Matches(g, msg[c].imei)
            THEN Attempt(c, idx[c], g)
            ELSE Loop(c, Ranged(c), idx[c] + 1)
  /\ UNCHANGED <<targets, cfgVars, closeVars, workerVars, msg, hstart, res, written,
                 snap, out, chClosed, nilUnits>>

\* t.client.Do returns with outcome o: on a 2xx status the loop goes on to its next
\* outbound call, otherwise handle sends its result and returns.
HandleResponse(c, o) ==
  /\ Alive
  /\ upc[c] = "http"
  /\ out' = [out EXCEPT ![c] = o]
  /\ IF Continues(o)
       THEN Loop(c, Ranged(c), idx[c] + 1)
       ELSE /\ Deliver(c, Result(o))
            /\ UNCHANGED <<idx, reqs>>
  /\ UNCHANGED <<targets, cfgVars, closeVars, workerVars, msg, hstart, res, written,
                 snap, chClosed, nilUnits>>

\* ------------------------------------------------------------ specifications
\* Steps of the connection handlers and of the dispatch units they cause.
ServeNext ==
  \/ \E c \in Conns : DecodeFails(c)
  \/ \E c \in Conns, m \in Messages : Decodes(c, m)
  \/ \E c \in Conns, w \in Workers : DistributeSend(c, w)
  \/ \E c \in Conns : DistributeReturn(c)
  \/ \E c \in Conns : WriteConfirmation(c)
  \/ \E c \in Conns : HandleStart(c)
  \/ \E c \in Conns, o \in Outcomes : HandleResponse(c, o)

\* Steps of the configuration caller and of the listener tasks applying its updates.
ConfigNext ==
  \/ \E cands \in CandidateLists : WithTargets(cands)
  \/ \E w \in Workers : WithTargetsSend(w)
  \/ \E w \in Workers : RunSetFirst(w)
  \/ \E w \in Workers : RunSetRest(w)

\* Steps of Close and of what the closed channels cause.
CloseNext ==
  \/ CloseConfig
  \/ CloseSbd
  \/ \E w \in Workers : RunConfigClosed(w)
  \/ \E w \in Workers : RunSbdClosed(w)
  \/ HandleNil
  \/ \E c \in Conns : DistributeSendPanic(c)

Next ==
  \/ ServeNext
  \/ ConfigNext
  \/ \E c \in Conns : HandleGarbage(c)
  \/ CloseNext
  \/ WithTargetsSendPanic

\* The whole program.
Spec == Init /\ [][Next]_vars

\* The state main reaches before it serves: one table from the configuration file
\* installed by WithTargets and applied by a listener task.
InitWith(cands) ==
  /\ arr = [k \in 0..MaxCfgCalls |-> IF k = 0 THEN Built(cands) ELSE <<>>]
  /\ targets = (IF cands = <<>> THEN NilHeader ELSE [ptr |-> 1, len |-> Len(cands)])
  /\ ncalls = 0
  /\ okCalls = {0}
  /\ lastRet = [call |-> 0, err |-> Nil, cands |-> <<>>]
  /\ cpc = "idle"
  /\ cfgClosed = FALSE
  /\ sbdClosed = FALSE
  /\ closePc = "idle"
  /\ closeQuiet = FALSE
  /\ wpc = [w \in Workers |-> "select"]
  /\ wcfg = [w \in Workers |-> 0]
  /\ pc = [c \in Conns |-> "reading"]
  /\ msg = [c \in Conns |-> NoMsg]
  /\ hstart = [c \in Conns |-> NoStart]
  /\ upc = [c \in Conns |-> "none"]
  /\ snap = [c \in Conns |-> NilHeader]
  /\ idx = [c \in Conns |-> 0]
  /\ reqs = [c \in Conns |-> <<>>]
  /\ out = [c \in Conns |-> None]
  /\ sends = [c \in Conns |-> 0]
  /\ rerr = [c \in Conns |-> None]
  /\ chClosed = [c \in Conns |-> FALSE]
  /\ res = [c \in Conns |-> 0]
  /\ written = [c \in Conns |-> <<>>]
  /\ nilUnits = 0
  /\ panicked = NoPanic

InitServe == \E cands \in FileLists : InitWith(cands)

\* Serving with the table of the configuration file: no update, no Close.
SpecServe == InitServe /\ [][ServeNext]_vars

\* Serving while the configuration caller replaces the table.
SpecReconf ==
  Init /\ [][ServeNext \/ ConfigNext \/ \E c \in Conns : HandleGarbage(c)]_vars

\* Serving without a configuration file (the table stays empty, no outbound call is
\* made) while the owner calls Close.
ServeEmptyNext ==
  \/ \E c \in Conns : DecodeFails(c)
  \/ \E c \in Conns, m \in Messages : Decodes(c, m)
  \/ \E c \in Conns, w \in Workers : DistributeSend(c, w)
  \/ \E c \in Conns : DistributeReturn(c)
  \/ \E c \in Conns : WriteConfirmation(c)
  \/ \E c \in Conns : HandleStart(c)

SpecClose == Init /\ [][ServeEmptyNext \/ CloseNext]_vars

\* The configuration caller replaces the table of the configuration file; no traffic.
SpecConfig == InitServe /\ [][ConfigNext]_vars

\* Serving with a distributer made by New with numworkers = 1: only listener task 1
\* runs.
OneListenerNext ==
  \/ \E c \in Conns : DecodeFails(c)
  \/ \E c \in Conns, m \in Messages : Decodes(c, m)
  \/ \E c \in Conns : DistributeSend(c, 1)
  \/ \E c \in Conns : DistributeReturn(c)
  \/ \E c \in Conns : WriteConfirmation(c)
  \/ \E c \in Conns : HandleStart(c)
  \/ \E c \in Conns, o \in Outcomes : HandleResponse(c, o)

SpecOneListener == InitServe /\ [][OneListenerNext]_vars

\* A distributer made with numworkers = 1 whose backends never answer, while the
\* configuration caller replaces the table of the configuration file.  The Go
\* scheduler runs the listener task when it can take a step, and its select takes
\* a configuration that is waiting.
BlockedNext ==
  \/ \E c \in Conns : DecodeFails(c)
  \/ \E c \in Conns, m \in Messages : Decodes(c, m)
  \/ \E c \in Conns : DistributeSend(c, 1)
  \/ \E c \in Conns : DistributeReturn(c)
  \/ \E c \in Conns : WriteConfirmation(c)
  \/ \E c \in Conns : HandleStart(c)
  \/ \E c \in Conns : HandleGarbage(c)
  \/ \E cands \in CandidateLists : WithTargets(cands)
  \/ WithTargetsSend(1)
  \/ RunSetFirst(1)
  \/ RunSetRest(1)

SpecBlocked ==
  /\ InitWith(<<TargetA, TargetB>>)
  /\ [][BlockedNext]_vars
  /\ WF_vars(WithTargetsSend(1))
  /\ WF_vars(RunSetFirst(1))
  /\ WF_vars(RunSetRest(1))

\* A distributer made with numworkers = 1 and started without a table, serving
\* while the configuration caller installs one; no Close.  Every goroutine that can
\* take a step is run, and every outbound call completes.
LiveNext ==
  \/ OneListenerNext
  \/ \E c \in Conns : HandleGarbage(c)
  \/ \E cands \in CandidateLists : WithTargets(cands)
  \/ WithTargetsSend(1)
  \/ RunSetFirst(1)
  \/ RunSetRest(1)

ConnSteps(c) ==
  \/ DistributeSend(c, 1)
  \/ DistributeReturn(c)
  \/ WriteConfirmation(c)
  \/ HandleStart(c)
  \/ HandleGarbage(c)
  \/ \E o \in Outcomes : HandleResponse(c, o)

SpecLive ==
  /\ Init
  /\ [][LiveNext]_vars
  /\ \A c \in Conns : WF_vars(ConnSteps(c))
  /\ WF_vars(WithTargetsSend(1) \/ RunSetFirst(1) \/ RunSetRest(1))

\* Serving with the table of the configuration file while the configuration caller
\* replaces it.
SpecUpdate ==
  InitWith(<<TargetA, TargetB>>) /\ [][ServeNext \/ ConfigNext \/ \E c \in Conns : HandleGarbage(c)]_vars

\* ------------------------------------------------------------ properties
\* The indices of s whose target's pattern matches imei, in table order.
RECURSIVE MatchingFrom(_, _, _)
MatchingFrom(s, imei, i) ==
  IF i > Len(s) THEN <<>>
  ELSE IF MatchString(Compile(s[i].IMEIPattern), imei)
    THEN <<i>> \o MatchingFrom(s, imei, i + 1)
    ELSE MatchingFrom(s, imei, i + 1)

Matching(s, imei) == MatchingFrom(s, imei, 1)

\* The indices the dispatch of connection c has sent a request to, in order.
Requested(c) == [k \in 1..Len(reqs[c]) |-> reqs[c][k].idx]

\* Handle has its result and distribute has not returned yet.
Returning(c) == pc[c] = "gotres"

\* The dispatch unit of c has evaluated its range expression.
SnapTaken(c) == upc[c] \in {"http", "beyond"} \/ (Returning(c) /\ rerr[c] # ErrMarshal)

Failed(o) == o \in {"non2xx", "transport"}

\* C1: a dispatch in which an attempted target answered with a non-2xx status
\* makes Handle return a non-nil error.
C1_NonOKStatusReturnsError ==
  \A c \in Conns : (Returning(c) /\ out[c] = "non2xx") => rerr[c] # Nil

\* C2: once an attempted target has failed (transport error or non-2xx status) the
\* dispatch is over: the failed request is the last one it issued, although later
\* targets may match, and exactly one result has been sent.
C2_FailureEndsDispatch ==
  \A c \in Conns :
    Failed(out[c]) =>
      /\ upc[c] = "done"
      /\ Returning(c)
      /\ sends[c] = 1
      /\ reqs[c] # <<>>
      /\ reqs[c][Len(reqs[c])].idx = idx[c]

C2_Witness ==
  \E c \in Conns :
    /\ Failed(out[c])
    /\ upc[c] = "done"
    /\ \E j \in (idx[c] + 1)..Len(Targets) : Matches(Targets[j], msg[c].imei)

\* C3: when the message serializes and no matching target fails (each one's request
\* can be built and is answered 2xx), Handle returns nil and the requests issued are
\* exactly one per matching target of the table; none when no target matches.
C3_SuccessReturnsNil ==
  \A c \in Conns :
    LET m == Matching(Targets, msg[c].imei)
    IN (/\ Returning(c)
        /\ msg[c].marshals
        /\ ~Failed(out[c])
        /\ \A k \in 1..Len(m) : NewRequestOK(Targets[m[k]].Backend))
       => (rerr[c] = Nil /\ Requested(c) = m)

C3_Witness ==
  \E c \in Conns :
    /\ Returning(c)
    /\ rerr[c] = Nil
    /\ Requested(c) = <<1, 2>>
    /\ \E d \in Conns :
         Returning(d) /\ rerr[d] = Nil /\ Targets # <<>> /\ Requested(d) = <<>>

\* C4: the requests of a dispatch go to targets of the table whose pattern matches
\* the message's device identifier, in table order and to each entry at most once.
C4_RequestsMatchInOrder ==
  \A c \in Conns :
    \A k \in 1..Len(reqs[c]) :
      LET r == reqs[c][k]
      IN /\ r.idx \in 1..Len(Targets)
         /\ r.tgt = Targets[r.idx]
         /\ MatchString(Compile(r.tgt.IMEIPattern), msg[c].imei)
         /\ k > 1 => reqs[c][k - 1].idx < r.idx

C4_Witness ==
  \E c \in Conns :
    /\ Len(Targets) = 2
    /\ Requested(c) = <<2>>
    /\ ~MatchString(Compile(Targets[1].IMEIPattern), msg[c].imei)
    /\ \E d \in Conns : Requested(d) = <<1, 2>>

\* C5: a WithTargets call given a candidate whose pattern does not compile returns
\* an error naming that pattern, hands nothing to a listener task and leaves the
\* active table as it was, wherever the candidate stands in the list.
C5_RefusedInstallsNothing ==
  [][(ncalls' = ncalls + 1 /\ FirstBroken(lastRet'.cands) # 0) =>
       /\ lastRet'.err = lastRet'.cands[FirstBroken(lastRet'.cands)].IMEIPattern
       /\ ~Compile(lastRet'.err).ok
       /\ cpc' = "idle"
       /\ <<targets, arr, okCalls, wpc, wcfg>>' = <<targets, arr, okCalls, wpc, wcfg>>]_vars

C5_Witness ==
  /\ lastRet.err # Nil
  /\ ncalls = lastRet.call
  /\ Len(lastRet.cands) = 2
  /\ FirstBroken(lastRet.cands) = 2
  /\ Targets # <<>>
  /\ Targets = arr[0]

\* The tables a reader may see: the empty one, or all candidates of a call that
\* returned nil.
CompleteTables == {<<>>} \cup {arr[k] : k \in okCalls}

\* C6: a Handle call that starts once WithTargets has returned nil for a table, no
\* later WithTargets call being made, is dispatched against that table.
C6_SubsequentHandleSeesTable ==
  \A c \in Conns :
    (/\ SnapTaken(c)
     /\ hstart[c].table # 0
     /\ ncalls = hstart[c].table - 1)
    => Resolve(snap[c]) = arr[hstart[c].table - 1]

\* C7: what a reader sees (a dispatch unit's range expression, a Targets() call) is
\* the empty table or the complete candidate list of a call that returned nil.
C7_ReadersSeeCompleteTables ==
  /\ Targets \in CompleteTables
  /\ \A c \in Conns : SnapTaken(c) => Resolve(snap[c]) \in CompleteTables

\* C8: the status byte written to the device is 1 exactly when decoding succeeded
\* and the handler returned nil; after a failed decode the handler was not invoked
\* and the byte is 0.
C8_StatusByte ==
  \A c \in Conns :
    pc[c] = "closed" =>
      /\ Len(written[c]) = 1
      /\ written[c][1] \in {0, 1}
      /\ written[c][1] = 1 <=> rerr[c] = Nil
      /\ rerr[c] = None => (upc[c] = "none" /\ sends[c] = 0)

C8_Witness ==
  \E c, d \in Conns :
    /\ pc[c] = "closed" /\ written[c] = <<1>>
    /\ pc[d] = "closed" /\ written[d] = <<0>> /\ rerr[d] = ErrTransport

\* C9 as claimed: a Handle call issued after Close() has completed stays blocked in
\* its send, without an error.
C9_BlocksForever ==
  \A c \in Conns :
    hstart[c].afterClose =>
      (pc[c] = "send" /\ ~(panicked.kind = "send on closed sbdChannel" /\ panicked.who = c))

\* C9 as amended: a Handle call issued after Close() has completed never returns a
\* result to its caller: no listener task receives its message, and its send on the
\* closed channel can only panic.
C9_NeverReturns ==
  \A c \in Conns :
    hstart[c].afterClose =>
      /\ pc[c] = "send"
      /\ upc[c] = "none"
      /\ sends[c] = 0
      /\ rerr[c] = None
      /\ sbdClosed

C9_Witness ==
  \E c \in Conns :
    /\ hstart[c].afterClose
    /\ panicked = [kind |-> "send on closed sbdChannel", who |-> c]

\* C10: after a Close() called while no Handle or WithTargets call is in progress
\* no dispatch unit is spawned for a message that was never submitted.
C10_NoDispatchFromClose ==
  closeQuiet => (nilUnits = 0 /\ panicked.kind # "nil pointer dereference")

\* The path a finished dispatch took, by the value it sent and its last outcome.
Path(c) ==
  CASE rerr[c] = ErrMarshal -> "serialization"
    [] rerr[c] = ErrNewRequest -> "request creation"
    [] rerr[c] = ErrTransport -> "transport"
    [] rerr[c] = StatusError /\ out[c] = "non2xx" -> "status"
    [] OTHER -> "success"

\* C11: a dispatch sends exactly one value on its message's result channel, on
\* every path, and before the caller closes the channel: once Handle has its
\* result one send has happened, no second one follows, and no send ever hits the
\* closed channel.
C11_ExactlyOneSend ==
  /\ panicked.kind # "send on closed returnedError"
  /\ \A c \in Conns :
       /\ sends[c] <= 1
       /\ chClosed[c] => (sends[c] = 1 /\ upc[c] = "done")
       /\ upc[c] = "done" => sends[c] = 1
       /\ upc[c] \in {"spawned", "http", "beyond"} => (sends[c] = 0 /\ pc[c] = "await")
       /\ Returning(c) => (sends[c] = 1 /\ ~chClosed[c])

C11_Witness ==
  \E c, d \in Conns :
    /\ chClosed[c] /\ sends[c] = 1 /\ rerr[c] = ErrMarshal
    /\ chClosed[d] /\ sends[d] = 1 /\ rerr[d] = ErrNewRequest
    /\ Path(c) = "serialization"
    /\ Path(d) = "request creation"

\* C12: with one listener task, every Handle call can hand its message over however
\* many dispatch units are outstanding in their outbound calls, so that all the
\* concurrent calls are outstanding at once: the listener count does not bound the
\* number of running dispatch units.
C12_ListenerCountDoesNotBound ==
  \A c \in Conns : pc[c] = "send" => ENABLED DistributeSend(c, 1)

C12_Witness ==
  /\ Cardinality(Conns) > 1
  /\ \A c \in Conns : upc[c] = "http" /\ pc[c] = "await"

\* C13: when the outbound call to an attempted target fails at transport level,
\* Handle returns that error, which is not nil, and the confirmation built for and
\* written to the device has status 0.
C13_TransportErrorStatus0 ==
  \A c \in Conns :
    /\ (Returning(c) /\ out[c] = "transport") => rerr[c] = ErrTransport
    /\ rerr[c] = ErrTransport =>
         /\ ErrTransport # Nil
         /\ \/ Returning(c) /\ out[c] = "transport"
            \/ pc[c] \in {"replying", "closed"} /\ res[c] = 0
         /\ pc[c] = "closed" => written[c] = <<0>>

C13_Witness ==
  \E c \in Conns :
    /\ rerr[c] = ErrTransport
    /\ pc[c] = "closed"
    /\ written[c] = <<0>>
    /\ \E t \in 1..Len(Targets) : Targets[t].Backend = "a"

\* The indices of m that are at most i.
UpTo(m, i) == SelectSeq(m, LAMBDA j : j <= i)

\* The snapshot of a dispatch holds no element from beyond its backing array.
Whole(s) == \A i \in 1..Len(s) : s[i] # Garbage

\* C14: the requests of a dispatch are taken from the one snapshot its loop
\* captured when it started: they go to the matching entries of that snapshot, in
\* its order, whatever table WithTargets has installed since, also between two of
\* the dispatch's outbound calls.
C14_OneSnapshotPerDispatch ==
  \A c \in Conns :
    SnapTaken(c) =>
      LET s == Resolve(snap[c])
      IN /\ \A k \in 1..Len(reqs[c]) :
              LET r == reqs[c][k]
              IN /\ r.idx \in 1..Len(s)
                 /\ s[r.idx] # Garbage => r.tgt = s[r.idx]
                 /\ k > 1 => reqs[c][k - 1].idx < r.idx
         /\ (Whole(s) /\ upc[c] = "http") =>
              Requested(c) = UpTo(Matching(s, msg[c].imei), idx[c])
         /\ (Whole(s) /\ Returning(c) /\ rerr[c] = Nil /\ ~Failed(out[c])) =>
              Requested(c) = Matching(s, msg[c].imei)

C14_Witness ==
  \E c, d \in Conns :
    /\ snap[c] = [ptr |-> 1, len |-> 2]
    /\ Requested(c) = <<1, 2>>
    /\ ncalls \in okCalls
    /\ ncalls > 0
    /\ \A w \in Workers : wpc[w] = "select"
    /\ targets = Header(ncalls)
    /\ targets # snap[c]
    /\ SnapTaken(d)
    /\ snap[d] = targets

\* C15: the table a dispatch goes over is the one that was active when a listener
\* task received its message, also when WithTargets installs another one before
\* the dispatch unit starts its loop.
C15_TableOfTheReceive ==
  [][\A c \in Conns :
       (upc[c] = "spawned" /\ upc'[c] # "spawned" /\ msg[c].marshals)
         => Resolve(snap'[c]) = Resolve(hstart[c].picked)]_vars

\* The state of a connection: Reading 1, Dispatching 2, Replying 3, Closed 4.
Rank(p) ==
  CASE p = "reading" -> 1
    [] p \in {"send", "await", "gotres"} -> 2
    [] p = "replying" -> 3
    [] OTHER -> 4

\* C16: a connection goes through Reading, Dispatching, Replying, Closed and never
\* back; it leaves Reading once, for the handler with a decoded message or for
\* Replying after a failed decode; nothing is written before Replying, one
\* confirmation is written there, and the write takes the connection to Closed,
\* where nothing happens any more.
C16_ConnectionLinear ==
  [][\A c \in Conns :
       /\ Rank(pc'[c]) >= Rank(pc[c])
       /\ Rank(pc'[c]) <= Rank(pc[c]) + 2
       /\ (Rank(pc[c]) = 1 /\ Rank(pc'[c]) = 2) =>
            (pc'[c] = "send" /\ msg'[c] \in Messages /\ upc[c] = "none")
       /\ (Rank(pc[c]) = 1 /\ Rank(pc'[c]) > 2) =>
            (pc'[c] = "replying" /\ upc'[c] = "none" /\ res'[c] = 0)
       /\ (Rank(pc[c]) = 2 /\ Rank(pc'[c]) > 2) =>
            (pc[c] = "gotres" /\ pc'[c] = "replying" /\ upc[c] = "done")
       /\ Rank(pc'[c]) <= 3 => written'[c] = <<>>
       /\ Rank(pc[c]) = 3 => res'[c] = res[c]
       /\ (Rank(pc[c]) = 3 /\ Rank(pc'[c]) = 4) => written'[c] = <<res[c]>>
       /\ Rank(pc[c]) = 4 =>
            (pc'[c] = pc[c] /\ written'[c] = written[c] /\ upc'[c] = upc[c])]_vars

C16_Witness ==
  \E c, d \in Conns :
    /\ pc[c] = "closed" /\ upc[c] = "none" /\ written[c] = <<0>>
    /\ pc[d] = "closed" /\ upc[d] = "done" /\ written[d] = <<1>>

\* Connection c is in a Handle call.
InHandle(c) == pc[c] \in {"send", "await", "gotres"}

\* There are Handle calls in progress, each held by a dispatch unit waiting in its
\* outbound call.
SomeBlocked ==
  /\ \E c \in Conns : InHandle(c)
  /\ \A c \in Conns : InHandle(c) => (upc[c] = "http" /\ pc[c] = "await")

AllBlocked == SomeBlocked /\ \A c \in Conns : InHandle(c)

C18_HandleReturns ==
  \A c \in Conns : pc[c] = "send" ~> pc[c] = "replying"

\* The terminal result of the dispatch of c's own message, from that message, the
\* requests made for it and the outcome of the last of them.
OwnResult(c) ==
  LET m == Matching(Targets, msg[c].imei)
  IN IF ~msg[c].marshals THEN ErrMarshal
     ELSE IF out[c] = "transport" THEN ErrTransport
     ELSE IF out[c] = "non2xx" THEN StatusError
     ELSE IF Len(reqs[c]) < Len(m) THEN ErrNewRequest
     ELSE Nil

\* C19: what a Handle call returns is the terminal result of the dispatch of its
\* own message, whatever the dispatches running beside it do and return.
C19_OwnResult ==
  \A c \in Conns :
    Returning(c) =>
      /\ rerr[c] = OwnResult(c)
      /\ Requested(c) = SubSeq(Matching(Targets, msg[c].imei), 1, Len(reqs[c]))

C19_Witness ==
  \E c, d \in Conns :
    /\ c # d
    /\ msg[c] = msg[d]
    /\ Returning(c) /\ rerr[c] = Nil /\ out[c] = "2xx"
    /\ Returning(d) /\ rerr[d] = ErrTransport

\* C20: once WithTargets has returned nil for a table and no other update is in
\* progress, the next Targets() call of the same caller returns that table.
C20_ReadYourWrites ==
  (cpc = "idle" /\ ncalls \in okCalls) => Targets = arr[ncalls]
====
